---- MODULE Spec2Model ----
(***************************************************************************)
(* Model of the Google Sign-In token verification server                   *)
(* (src/unnamed/part_001): parseJWT, verifyJWT and fetchGooglePublicKeys.  *)
(*                                                                         *)
(* A token is the sequence of segments that token.split(".") yields.  A    *)
(* header or payload segment is described by the JSON document its         *)
(* base64url text decodes to; a signature segment by the key material that *)
(* produced it and the signing input it was produced over.                 *)
(***************************************************************************)
EXTENDS Integers, Sequences, FiniteSets, TLC

(* ---- bounds of the model ---- *)
MaxClock == 3      \* the clock (whole seconds) takes the values 1..MaxClock
MaxExp == 3        \* exp claims range over 0..MaxExp

(* ---- configuration of the server ---- *)
CLIENT_ID == "48315565897-6i3403uof617avnel62iu3jhcqo70u81.apps.googleusercontent.com"
Issuers == {"https://accounts.google.com", "accounts.google.com"}

(* ---- the inputs: tokens ---- *)
Algs == {"RS256", "HS256", "none"}
Kids == {"k1", "k2", "k9", "undefined"}
Auds == {CLIENT_ID, "48315565897", "other-client.apps.googleusercontent.com"}
Isss == Issuers \cup {"accounts.google.com.evil.example"}
Exps == {{}} \cup {{e} : e \in 0..MaxExp}     \* {} is a payload without exp

\* the profile fields a payload carries besides exp, aud and iss
NoUser == [sub |-> "-", email |-> "-", name |-> "-", picture |-> "-",
           email_verified |-> FALSE]
Users ==
    {[sub |-> "u1", email |-> "ada@example.com", name |-> "Ada",
      picture |-> "https://example.com/ada.png", email_verified |-> TRUE],
     [sub |-> "u2", email |-> "bob@example.com", name |-> "Bob",
      picture |-> "https://example.com/bob.png", email_verified |-> FALSE]}

PayloadDoc(j, e, a, i, u) ==
    [json |-> j, exp |-> e, aud |-> a, iss |-> i, sub |-> u.sub,
     email |-> u.email, name |-> u.name, picture |-> u.picture,
     email_verified |-> u.email_verified]

NoHeader == [json |-> "none", alg |-> "-", kid |-> "-"]
NoPayload == PayloadDoc("none", {}, "-", "-", NoUser)

HeaderSegs ==
    {[json |-> j, alg |-> "-", kid |-> "-"] : j \in {"invalid", "null"}}
    \cup [json : {"object"}, alg : Algs, kid : Kids]

PayloadSegs ==
    {PayloadDoc(j, {}, "-", "-", NoUser) : j \in {"invalid", "null"}}
    \cup {PayloadDoc("object", e, a, i, u) :
              e \in Exps, a \in Auds, i \in Isss, u \in Users}

GoodHeader == [json |-> "object", alg |-> "RS256", kid |-> "k1"]
GoodUser == CHOOSE u \in Users : u.sub = "u1"
GoodPayload ==
    PayloadDoc("object", {MaxExp}, CLIENT_ID, "accounts.google.com", GoodUser)

\* key material: m1 and m2 are the provider's keys, mX is somebody else's.
\* A signature segment is the RSA-SHA256 signature made with key material
\* `by` over the signing input `over` (the two raw segments joined by ".").
SigSegs(h, p) ==
    [by : {"m1", "mX"}, over : {<<h, p>>, <<GoodHeader, GoodPayload>>}]

GoodSig == [by |-> "m1", over |-> <<GoodHeader, GoodPayload>>]

ThreeSegTokens ==
    UNION {{<<hp[1], hp[2], s>> : s \in SigSegs(hp[1], hp[2])} :
              hp \in HeaderSegs \X PayloadSegs}

Tokens ==
    ThreeSegTokens
    \cup {<<GoodHeader>>, <<GoodHeader, GoodPayload>>,
          <<GoodHeader, GoodPayload, GoodSig, GoodSig>>}

(* ---- the inputs: what the key-set endpoint answers ---- *)
K1 == [kid |-> "k1", kty |-> "RSA", mat |-> "m1"]
K2 == [kid |-> "k2", kty |-> "RSA", mat |-> "m2"]
KEc == [kid |-> "k9", kty |-> "EC", mat |-> "m9"]   \* no n/e: not an RSA JWK

NoSig == [by |-> "-", over |-> <<>>]
NoKey == [kid |-> "-", kty |-> "-", mat |-> "-"]
NoBody == [json |-> "none", hasKeys |-> FALSE, keys |-> <<>>]
\* the request or the response failed: there is no document
NetFailure == [json |-> "error", hasKeys |-> FALSE, keys |-> <<>>]

KeyLists == {<<>>, <<K1>>, <<K2, K1>>, <<K1, KEc>>}

Bodies ==
    {[json |-> "invalid", hasKeys |-> FALSE, keys |-> <<>>],
     [json |-> "null", hasKeys |-> FALSE, keys |-> <<>>],
     [json |-> "object", hasKeys |-> FALSE, keys |-> <<>>]}
    \cup {[json |-> "object", hasKeys |-> TRUE, keys |-> ks] : ks \in KeyLists}

CallIds == {"c1"}

Pending == [kind |-> "pending", err |-> "-", claims |-> NoPayload]
Failure(msg) == [kind |-> "error", err |-> msg, claims |-> NoPayload]
Success(p) == [kind |-> "claims", err |-> "-", claims |-> p]

VARIABLES
    clock,      \* Date.now() / 1000, shared by all calls
    token,      \* token[c]: the argument of call c
    pc,         \* pc[c]: the statement call c executes next
    now,        \* now[c]: the clock reading of line 104
    header,     \* header[c], payload[c], signature[c], raw[c]: parseJWT's result
    payload,
    signature,
    raw,
    net,        \* net[c]: state of the call's HTTPS request
    keys,       \* keys[c]: the resolved value of fetchGooglePublicKeys
    key,        \* key[c]: the record found by kid
    isValid,    \* isValid[c]: what verify.verify returned
    log,        \* log[c]: the stages the call has executed, in order
    result,     \* result[c]: how the promise of verifyJWT settled
    answer,     \* answer[c]: what the key-set endpoint sent to call c
    body,       \* body[c]: the body of the login request behind call c
    http,       \* http[c]: the responses sent for that request, in order
    cin,        \* the argument of base64UrlDecode
    cout,       \* what base64UrlDecode returned
    sock,       \* sock[s]: the connection state of socket s
    room,       \* the sockets in room "tabellone"
    inbox,      \* inbox[s]: the "mostra-numero" events emitted to s
    events      \* the "chiama" events the server has handled, in order

\* the state outside verifyJWT and its key-set request
outside == <<body, http, cin, cout, sock, room, inbox, events>>

vars == <<clock, token, pc, now, header, payload, signature, raw, net, keys,
          key, isValid, log, result, answer, outside>>

Calls == DOMAIN pc

InitCalls(C, T) ==
    /\ clock \in 1..MaxClock
    /\ token \in [C -> T]
    /\ pc = [c \in C |-> "parse"]
    /\ now = [c \in C |-> 0]
    /\ header = [c \in C |-> NoHeader]
    /\ payload = [c \in C |-> NoPayload]
    /\ signature = [c \in C |-> NoSig]
    /\ raw = [c \in C |-> <<>>]
    /\ net = [c \in C |-> "idle"]
    /\ keys = [c \in C |-> NoBody]
    /\ key = [c \in C |-> NoKey]
    /\ isValid = [c \in C |-> "unset"]
    /\ log = [c \in C |-> <<>>]
    /\ result = [c \in C |-> Pending]
    /\ answer = [c \in C |-> NoBody]

\* no login request, no decoding and no socket
NoRequest == [json |-> "none", token |-> <<>>]

IdleLogin(C) ==
    /\ body = [c \in C |-> NoRequest]
    /\ http = [c \in C |-> <<>>]

IdleCodec ==
    /\ cin = <<>>
    /\ cout = [done |-> FALSE, failed |-> FALSE, bytes |-> <<>>]

IdleSockets ==
    /\ sock = <<>>
    /\ room = {}
    /\ inbox = <<>>
    /\ events = <<>>

Init ==
    /\ InitCalls(CallIds, Tokens)
    /\ IdleLogin(CallIds)
    /\ IdleCodec
    /\ IdleSockets

(* ---- helpers: the conditions the code evaluates ---- *)

\* mutant: only too few segments are refused
BadFormatTooFew(parts) == Len(parts) < 3

\* line 77: parts.length !== 3
BadFormat(parts) == Len(parts) # 3

\* JSON.parse(base64UrlDecode(seg).toString()) throws a SyntaxError
JsonThrows(seg) == seg.json = "invalid"

\* line 105: payload.exp && payload.exp < now  (undefined and 0 are falsy)
Expired(p, t) == \E e \in p.exp : e # 0 /\ e < t

\* mutant: the numeric project prefix of the client id is accepted too
AudMismatchPrefix(p) == p.aud \notin {CLIENT_ID, "48315565897"}

\* line 111: payload.aud !== CLIENT_ID
AudMismatch(p) == p.aud # CLIENT_ID

\* lines 117-120: iss is neither of the two accepted forms
IssInvalid(p) ==
    /\ p.iss # "https://accounts.google.com"
    /\ p.iss # "accounts.google.com"

\* mutant: the first record of the list is taken, whatever its kid
FindFirst(ks, kid) == IF ks = <<>> THEN NoKey ELSE Head(ks)

\* mutant: when no record has the kid, the first record is used instead
FindByKidOrFirst(ks, kid) ==
    IF ks = <<>> THEN NoKey
    ELSE IF \E i \in 1..Len(ks) : ks[i].kid = kid
    THEN ks[CHOOSE i \in 1..Len(ks) :
                /\ ks[i].kid = kid
                /\ \A j \in 1..(i - 1) : ks[j].kid # kid]
    ELSE Head(ks)

\* Array.prototype.find: the first record satisfying k.kid === kid
RECURSIVE FindByKid(_, _)
FindByKid(ks, kid) ==
    IF ks = <<>> THEN NoKey
    ELSE IF Head(ks).kid = kid THEN Head(ks)
    ELSE FindByKid(Tail(ks), kid)

\* crypto.createPublicKey({key: {kty, n, e}, format: "jwk"}) throws unless
\* the record is an RSA key
KeyBuildThrows(k) == k.kty # "RSA"

\* mutant: the signature is checked against the signing input only, not
\* against the key
CryptoVerifyAnyKey(k, data, sig) == sig.over = data

\* verify.verify(publicKey, signatureBuffer) after verify.update(data):
\* RSA-SHA256 with the key's material over exactly this signing input
CryptoVerify(k, data, sig) == sig.by = k.mat /\ sig.over = data

(* ---- verifyJWT, statement by statement ---- *)

\* a throw rejects the promise of verifyJWT; nothing after it runs
Throw(c, stage, msg) ==
    /\ pc' = [pc EXCEPT ![c] = "done"]
    /\ log' = [log EXCEPT ![c] = Append(@, stage)]
    /\ result' = [result EXCEPT ![c] = Failure(msg)]

Pass(c, stage, next) ==
    /\ pc' = [pc EXCEPT ![c] = next]
    /\ log' = [log EXCEPT ![c] = Append(@, stage)]
    /\ UNCHANGED result

\* line 101 and parseJWT, lines 74-89
Parse(c) ==
    /\ pc[c] = "parse"
    /\ LET parts == token[c] IN
       IF BadFormat(parts)
       THEN /\ Throw(c, "parse", "Invalid JWT format")
            /\ UNCHANGED <<header, payload, signature, raw>>
       ELSE IF JsonThrows(parts[1]) \/ JsonThrows(parts[2])
       THEN /\ Throw(c, "parse", "SyntaxError")
            /\ UNCHANGED <<header, payload, signature, raw>>
       ELSE /\ header' = [header EXCEPT ![c] = parts[1]]
            /\ payload' = [payload EXCEPT ![c] = parts[2]]
            /\ signature' = [signature EXCEPT ![c] = parts[3]]
            /\ raw' = [raw EXCEPT ![c] = parts]
            /\ Pass(c, "parse", "exp")
    /\ UNCHANGED <<clock, token, now, net, keys, key, isValid>>
    /\ UNCHANGED <<answer, outside>>

\* lines 104-107
CheckExp(c) ==
    /\ pc[c] = "exp"
    /\ now' = [now EXCEPT ![c] = clock]
    /\ IF payload[c].json = "null"
       THEN Throw(c, "exp", "TypeError")
       ELSE IF Expired(payload[c], clock)
       THEN Throw(c, "exp", "Token has expired")
       ELSE Pass(c, "exp", "aud")
    /\ UNCHANGED <<clock, token, header, payload, signature, raw, net, keys,
                   key, isValid>>
    /\ UNCHANGED <<answer, outside>>

\* lines 111-113
CheckAud(c) ==
    /\ pc[c] = "aud"
    /\ IF AudMismatch(payload[c])
       THEN Throw(c, "aud", "Token audience mismatch")
       ELSE Pass(c, "aud", "iss")
    /\ UNCHANGED <<clock, token, now, header, payload, signature, raw, net,
                   keys, key, isValid>>
    /\ UNCHANGED <<answer, outside>>

\* mutant: the issuer failure is recorded but the function carries on
CheckIssNoThrow(c) ==
    /\ pc[c] = "iss"
    /\ pc' = [pc EXCEPT ![c] = "fetch"]
    /\ log' = [log EXCEPT ![c] = Append(@, "iss")]
    /\ result' = [result EXCEPT ![c] =
            IF IssInvalid(payload[c]) THEN Failure("Invalid token issuer") ELSE @]
    /\ UNCHANGED <<clock, token, now, header, payload, signature, raw, net,
                   keys, key, isValid>>
    /\ UNCHANGED <<answer, outside>>

\* lines 117-122
CheckIss(c) ==
    /\ pc[c] = "iss"
    /\ IF IssInvalid(payload[c])
       THEN Throw(c, "iss", "Invalid token issuer")
       ELSE Pass(c, "iss", "fetch")
    /\ UNCHANGED <<clock, token, now, header, payload, signature, raw, net,
                   keys, key, isValid>>
    /\ UNCHANGED <<answer, outside>>

\* line 126, first half: fetchGooglePublicKeys() issues https.get and the
\* call suspends on the promise
FetchStart(c) ==
    /\ pc[c] = "fetch"
    /\ net[c] = "idle"
    /\ net' = [net EXCEPT ![c] = "pending"]
    /\ Pass(c, "fetch", "await")
    /\ UNCHANGED <<clock, token, now, header, payload, signature, raw, keys,
                   key, isValid>>
    /\ UNCHANGED <<answer, outside>>

\* mutant: the parsed key set is kept in one place shared by all calls
FetchEndShared(c, doc) ==
    /\ pc[c] = "await"
    /\ net[c] = "pending"
    /\ net' = [net EXCEPT ![c] = "settled"]
    /\ answer' = [answer EXCEPT ![c] = doc]
    /\ IF JsonThrows(doc)
       THEN /\ Throw(c, "await", "SyntaxError")
            /\ UNCHANGED keys
       ELSE /\ keys' = [d \in Calls |-> doc]
            /\ Pass(c, "await", "find")
    /\ UNCHANGED <<clock, token, now, header, payload, signature, raw, key,
                   isValid>>
    /\ UNCHANGED outside

\* lines 33-39: the response ended with the text `doc`; JSON.parse resolves or rejects
FetchEnd(c, doc) ==
    /\ pc[c] = "await"
    /\ net[c] = "pending"
    /\ net' = [net EXCEPT ![c] = "settled"]
    /\ answer' = [answer EXCEPT ![c] = doc]
    /\ IF JsonThrows(doc)
       THEN /\ Throw(c, "await", "SyntaxError")
            /\ UNCHANGED keys
       ELSE /\ keys' = [keys EXCEPT ![c] = doc]
            /\ Pass(c, "await", "find")
    /\ UNCHANGED <<clock, token, now, header, payload, signature, raw, key,
                   isValid>>
    /\ UNCHANGED outside

\* lines 40-42: the request or the response emitted "error"
FetchError(c) ==
    /\ pc[c] = "await"
    /\ net[c] = "pending"
    /\ net' = [net EXCEPT ![c] = "settled"]
    /\ answer' = [answer EXCEPT ![c] = NetFailure]
    /\ Throw(c, "await", "NetworkError")
    /\ UNCHANGED <<clock, token, now, header, payload, signature, raw, keys,
                   key, isValid>>
    /\ UNCHANGED outside

\* lines 128-132.  keys.keys throws on null, keys.keys.find throws when the
\* document has no keys member, and the callback's header.kid throws on a
\* null header as soon as there is a record to test.
FindKey(c) ==
    /\ pc[c] = "find"
    /\ IF \/ keys[c].json = "null"
          \/ ~keys[c].hasKeys
          \/ (header[c].json = "null" /\ keys[c].keys # <<>>)
       THEN /\ Throw(c, "find", "TypeError")
            /\ UNCHANGED key
       ELSE LET k == FindByKid(keys[c].keys, header[c].kid) IN
            /\ key' = [key EXCEPT ![c] = k]
            /\ IF k = NoKey
               THEN Throw(c, "find", "Public key not found")
               ELSE Pass(c, "find", "verify")
    /\ UNCHANGED <<clock, token, now, header, payload, signature, raw, net,
                   keys, isValid>>
    /\ UNCHANGED <<answer, outside>>

\* mutant: a token is accepted once; a second presentation is refused
VerifySigOnce(c) ==
    /\ pc[c] = "verify"
    /\ IF KeyBuildThrows(key[c])
       THEN /\ Throw(c, "verify", "CryptoError")
            /\ UNCHANGED isValid
       ELSE LET dataToVerify == <<raw[c][1], raw[c][2]>>
                seen == \E d \in Calls \ {c} :
                            result[d].kind = "claims" /\ token[d] = token[c]
                ok == CryptoVerify(key[c], dataToVerify, signature[c]) /\ ~seen IN
            /\ isValid' = [isValid EXCEPT ![c] = IF ok THEN "true" ELSE "false"]
            /\ pc' = [pc EXCEPT ![c] = "done"]
            /\ log' = [log EXCEPT ![c] = Append(@, "verify")]
            /\ result' = [result EXCEPT ![c] =
                    IF ok THEN Success(payload[c])
                          ELSE Failure("Invalid token signature")]
    /\ UNCHANGED <<clock, token, now, header, payload, signature, raw, net,
                   keys, key>>
    /\ UNCHANGED <<answer, outside>>

\* lines 135-160
VerifySig(c) ==
    /\ pc[c] = "verify"
    /\ IF KeyBuildThrows(key[c])
       THEN /\ Throw(c, "verify", "CryptoError")
            /\ UNCHANGED isValid
       ELSE LET dataToVerify == <<raw[c][1], raw[c][2]>>
                ok == CryptoVerify(key[c], dataToVerify, signature[c]) IN
            /\ isValid' = [isValid EXCEPT ![c] = IF ok THEN "true" ELSE "false"]
            /\ pc' = [pc EXCEPT ![c] = "done"]
            /\ log' = [log EXCEPT ![c] = Append(@, "verify")]
            /\ result' = [result EXCEPT ![c] =
                    IF ok THEN Success(payload[c])
                          ELSE Failure("Invalid token signature")]
    /\ UNCHANGED <<clock, token, now, header, payload, signature, raw, net,
                   keys, key>>
    /\ UNCHANGED <<answer, outside>>

\* time passes
Tick ==
    /\ clock < MaxClock
    /\ clock' = clock + 1
    /\ UNCHANGED <<token, pc, now, header, payload, signature, raw, net, keys,
                   key, isValid, log, result>>
    /\ UNCHANGED <<answer, outside>>

Next ==
    \/ \E c \in Calls : Parse(c)
    \/ \E c \in Calls : CheckExp(c)
    \/ \E c \in Calls : CheckAud(c)
    \/ \E c \in Calls : CheckIss(c)
    \/ \E c \in Calls : FetchStart(c)
    \/ \E c \in Calls : \E doc \in Bodies : FetchEnd(c, doc)
    \/ \E c \in Calls : FetchError(c)
    \/ \E c \in Calls : FindKey(c)
    \/ \E c \in Calls : VerifySig(c)
    \/ Tick

Spec == Init /\ [][Next]_vars

(* ---- vocabulary of the properties ---- *)

\* the only signature scheme the verifier runs (line 151)
AllowedAlgs == {"RS256"}

Stages == <<"parse", "exp", "aud", "iss", "fetch", "await", "find", "verify">>

IsPrefix(s, t) == Len(s) <= Len(t) /\ \A i \in 1..Len(s) : s[i] = t[i]

Ran(c, stage) == \E i \in 1..Len(log[c]) : log[c][i] = stage

Records(ks) == {ks[i] : i \in 1..Len(ks)}

\* the token of call c splits into three segments that both parse to objects
WellFormed(c) ==
    /\ Len(token[c]) = 3
    /\ token[c][1].json = "object"
    /\ token[c][2].json = "object"

\* the fetch of call c delivered a document with a keys list
KeySetFetched(c) == keys[c].json = "object" /\ keys[c].hasKeys

\* the signature segment is the signature of this very token made with
\* the material m
SignedBy(c, m) ==
    /\ token[c][3].by = m
    /\ token[c][3].over = <<token[c][1], token[c][2]>>

Returned(c) == result[c].kind = "claims"
Failed(c, msg) == result[c].kind = "error" /\ result[c].err = msg

(* ---- C1 ---- *)
\* C1: verifyJWT returns the payload only after every stage has run, in
\* order, and has passed for that same token: the expiration test of line
\* 105 did not fire, aud is the client id, iss is an accepted issuer, the
\* key was found by the header's kid in the fetched key set, and the
\* signature primitive returned true for this token's signing input and
\* signature under that key.
C1_ClaimsOnlyAfterAllChecks ==
    \A c \in Calls : Returned(c) =>
        /\ log[c] = Stages
        /\ WellFormed(c)
        /\ \A e \in token[c][2].exp : e = 0 \/ e >= now[c]
        /\ token[c][2].aud = CLIENT_ID
        /\ token[c][2].iss \in Issuers
        /\ KeySetFetched(c)
        /\ key[c] \in Records(keys[c].keys)
        /\ key[c].kid = token[c][1].kid
        /\ isValid[c] = "true"
        /\ SignedBy(c, key[c].mat)
        /\ result[c].claims = token[c][2]

C1_Witness ==
    \E c \in Calls : Returned(c) /\ token[c][1].kid = "k1" /\ Len(keys[c].keys) = 1

(* ---- C2 ---- *)
\* C2: a well-formed token with an allow-listed alg, exp later than the
\* clock reading, aud equal to the client id and an accepted iss, whose kid
\* names an RSA record of the fetched key set and whose signature was made
\* with that record's key over the token's own signing input, is accepted:
\* verifyJWT returns claims equal to the token's payload.
C2_ValidTokenAccepted ==
    \A c \in Calls :
        ( /\ pc[c] = "done"
          /\ WellFormed(c)
          /\ token[c][1].alg \in AllowedAlgs
          /\ \E e \in token[c][2].exp : e > now[c]
          /\ token[c][2].aud = CLIENT_ID
          /\ token[c][2].iss \in Issuers
          /\ KeySetFetched(c)
          /\ \E k \in Records(keys[c].keys) :
                /\ k.kid = token[c][1].kid
                /\ k.kty = "RSA"
                /\ SignedBy(c, k.mat) )
        => result[c] = Success(token[c][2])

C2_Witness ==
    \E c \in Calls :
        /\ Returned(c)
        /\ token[c][1].alg \in AllowedAlgs
        /\ keys[c].keys = <<K2, K1>>
        /\ \E e \in token[c][2].exp : e > now[c]

(* ---- C3 ---- *)
\* C3: a payload without exp is rejected; verifyJWT never returns claims
\* for a payload that has no exp.
C3_MissingExpRejected ==
    \A c \in Calls : Returned(c) => token[c][2].exp # {}

(* ---- C4 ---- *)
\* C4: a token whose header alg is outside the allow-list is rejected
\* before the signature primitive runs, and never yields claims.
C4_AlgAllowListEnforced ==
    \A c \in Calls :
        (WellFormed(c) /\ token[c][1].alg \notin AllowedAlgs)
        => ~Returned(c) /\ isValid[c] = "unset"

(* ---- C5 ---- *)
\* C5: a token that does not split into exactly three segments fails with
\* "Invalid JWT format" (MalformedToken), and its call never starts a
\* key-set request.
C5_BadSegmentCountNoFetch ==
    \A c \in Calls : Len(token[c]) # 3 =>
        /\ net[c] = "idle"
        /\ ~Ran(c, "fetch")
        /\ pc[c] # "parse" => (pc[c] = "done" /\ Failed(c, "Invalid JWT format"))

C5_Witness ==
    \E c \in Calls : Len(token[c]) = 2 /\ pc[c] = "done"

(* ---- C6 ---- *)
\* C6: a well-formed token whose exp is earlier than the clock reading is
\* rejected with "Token has expired" (ClaimExpired), whatever its
\* signature and kid.
C6_PastExpRejected ==
    \A c \in Calls :
        ( /\ pc[c] = "done"
          /\ WellFormed(c)
          /\ \E e \in token[c][2].exp : e < now[c] )
        => Failed(c, "Token has expired")

(* ---- C7 ---- *)
\* C7: a well-formed token whose aud differs from the client id (a proper
\* prefix of it included) never yields claims; unless the call was already
\* rejected as expired it fails with "Token audience mismatch"
\* (ClaimAudienceMismatch), whatever its issuer and signature, and a token
\* whose exp is not in the past always fails so.
C7_AudMismatchRejected ==
    \A c \in Calls :
        ( /\ pc[c] = "done"
          /\ WellFormed(c)
          /\ token[c][2].aud # CLIENT_ID )
        => /\ \/ Failed(c, "Token audience mismatch")
              \/ Failed(c, "Token has expired")
           /\ (\A e \in token[c][2].exp : e >= now[c])
                 => Failed(c, "Token audience mismatch")

C7_Witness ==
    \E c \in Calls :
        /\ Failed(c, "Token audience mismatch")
        /\ token[c][2].aud = "48315565897"
        /\ token[c][2].iss \in Issuers
        /\ SignedBy(c, "m1")

(* ---- C8 ---- *)
\* C8: when a well-formed token passed the claim checks and the fetched key
\* list has no record with the header's kid, verifyJWT fails with "Public
\* key not found" (KeyNotFound) and the signature primitive is never run.
C8_UnknownKidKeyNotFound ==
    \A c \in Calls :
        ( /\ pc[c] = "done"
          /\ WellFormed(c)
          /\ KeySetFetched(c)
          /\ \A k \in Records(keys[c].keys) : k.kid # token[c][1].kid )
        => /\ Failed(c, "Public key not found")
           /\ isValid[c] = "unset"
           /\ ~Ran(c, "verify")

C8_Witness ==
    \E c \in Calls :
        /\ Failed(c, "Public key not found")
        /\ keys[c].keys = <<K2, K1>>
        /\ token[c][1].kid = "k9"

(* ---- C9 ---- *)
\* C9: the first violated rule, in the order expiration, audience, issuer,
\* names the error of a well-formed token: "Token has expired" if exp is
\* earlier than the clock reading, else "Token audience mismatch" if aud
\* differs from the client id, else "Invalid token issuer" if iss is not an
\* accepted issuer.
C9_FirstViolatedRuleWins ==
    \A c \in Calls :
        (pc[c] = "done" /\ WellFormed(c)) =>
            LET p == token[c][2]
                expired == \E e \in p.exp : e < now[c] IN
            /\ expired => Failed(c, "Token has expired")
            /\ (~expired /\ p.aud # CLIENT_ID)
                 => Failed(c, "Token audience mismatch")
            /\ (~expired /\ p.aud = CLIENT_ID /\ p.iss \notin Issuers)
                 => Failed(c, "Invalid token issuer")

(* ---- C10 ---- *)
StageErrors ==
    [parse |-> {"Invalid JWT format", "SyntaxError"},
     exp |-> {"TypeError", "Token has expired"},
     aud |-> {"Token audience mismatch"},
     iss |-> {"Invalid token issuer"},
     fetch |-> {},
     await |-> {"SyntaxError", "NetworkError"},
     find |-> {"TypeError", "Public key not found"},
     verify |-> {"CryptoError", "Invalid token signature"}]

C10_FailureState(c) ==
    /\ IsPrefix(log[c], Stages)
    /\ result[c].kind = "error" =>
        /\ pc[c] = "done"
        /\ result[c].claims = NoPayload
        /\ log[c] # <<>>
        /\ result[c].err \in StageErrors[log[c][Len(log[c])]]
        /\ ~Ran(c, "fetch") => net[c] = "idle"
        /\ ~Ran(c, "verify") => isValid[c] = "unset"

C10_NothingAfterFailure(c) ==
    result[c].kind = "error" =>
        /\ result'[c] = result[c]
        /\ log'[c] = log[c]
        /\ net'[c] = net[c]
        /\ isValid'[c] = isValid[c]

\* C10: a failure short-circuits.  The stages run in order, each at most
\* once; the error is the one of the last stage that ran; a call that
\* failed in a claim check has started no request and no signature check, a
\* call that failed in the fetch or the lookup has run no signature check;
\* a failed call carries no claims, and after the failure none of its
\* stages runs and its result never changes.
C10_ShortCircuit ==
    /\ [](\A c \in Calls : C10_FailureState(c))
    /\ [][\A c \in Calls : C10_NothingAfterFailure(c)]_vars

C10_Witness ==
    \E c \in Calls :
        /\ Failed(c, "Invalid token issuer")
        /\ token[c][2].aud = CLIENT_ID
        /\ SignedBy(c, "m1")
        /\ clock > now[c]

(* ---- C11 ---- *)
\* C11: the signature stage (lines 134-157) ends in one of two ways only:
\* the predicate returned true and the payload is returned, or the call
\* fails with "Invalid token signature" (InvalidSignature); a key record
\* that cannot be turned into a public key is reported so too.
C11_SignatureStageOutcomes ==
    \A c \in Calls :
        (pc[c] = "done" /\ Ran(c, "verify")) =>
            \/ Returned(c) /\ isValid[c] = "true"
            \/ Failed(c, "Invalid token signature")

(* ---- C12 ---- *)
\* the answers that are a network failure or a malformed response
BadAnswer(a) ==
    \/ a = NetFailure
    \/ a.json \in {"invalid", "null"}
    \/ a.json = "object" /\ ~a.hasKeys

\* C12: when the request failed or the answer is not a JSON document with
\* a keys list, the call fails with the rejection of the fetch itself
\* (KeyFetchError: the error of the "await" stage), not with "Public key
\* not found", claims, or a runtime error of a later statement.
C12_BadAnswerIsFetchError ==
    \A c \in Calls :
        (pc[c] = "done" /\ net[c] = "settled" /\ BadAnswer(answer[c])) =>
            /\ result[c].kind = "error"
            /\ result[c].err \in {"NetworkError", "SyntaxError"}
            /\ log[c][Len(log[c])] = "await"

(* ---- C13 ---- *)
\* a token whose signature was made with material m over its own input
Signed(h, p, m) == <<h, p, [by |-> m, over |-> <<h, p>>]>>

\* a few tokens, one for each way a call can end
SmallTokens ==
    {Signed(GoodHeader, GoodPayload, "m1"),
     Signed(GoodHeader, GoodPayload, "mX"),
     Signed(GoodHeader, [GoodPayload EXCEPT !.exp = {1}], "m1"),
     Signed(GoodHeader, [GoodPayload EXCEPT !.aud = "48315565897"], "m1"),
     Signed(GoodHeader,
            [GoodPayload EXCEPT !.iss = "accounts.google.com.evil.example"], "m1"),
     Signed([GoodHeader EXCEPT !.kid = "k9"], GoodPayload, "m1"),
     <<GoodHeader, GoodPayload>>}

InitSmall ==
    /\ InitCalls(CallIds, SmallTokens)
    /\ IdleLogin(CallIds)
    /\ IdleCodec
    /\ IdleSockets

\* The event loop runs every continuation that is ready and time passes;
\* nothing obliges the endpoint to answer or the connection to fail.
LiveSpec ==
    /\ InitSmall
    /\ [][Next]_vars
    /\ WF_vars(Tick)
    /\ \A c \in CallIds :
        /\ WF_vars(Parse(c))
        /\ WF_vars(CheckExp(c))
        /\ WF_vars(CheckAud(c))
        /\ WF_vars(CheckIss(c))
        /\ WF_vars(FetchStart(c))
        /\ WF_vars(FindKey(c))
        /\ WF_vars(VerifySig(c))

\* C13: every call of verifyJWT eventually settles, with claims or with an
\* error, also when the key-set request never completes.
C13_EveryCallSettles ==
    \A c \in CallIds : <>(pc[c] = "done")

(* ---- C14 ---- *)
ConcIds == {"c1", "c2"}

InitConc ==
    /\ InitCalls(ConcIds, SmallTokens)
    /\ IdleLogin(ConcIds)
    /\ IdleCodec
    /\ IdleSockets

\* two calls of verifyJWT in flight at once
SpecConc == InitConc /\ [][Next]_vars

\* everything call c owns
CallState(c) ==
    <<token[c], pc[c], now[c], header[c], payload[c], signature[c], raw[c],
      net[c], keys[c], key[c], isValid[c], log[c], result[c], answer[c]>>

C14_State ==
    /\ \A c \in Calls :
        /\ IsPrefix(log[c], Stages)
        /\ Ran(c, "fetch") <=> net[c] # "idle"
        /\ net[c] = "settled" <=> answer[c] # NoBody
        /\ keys[c] \in {NoBody, answer[c]}
    /\ \A c, d \in Calls :
        ( /\ pc[c] = "done" /\ pc[d] = "done"
          /\ token[c] = token[d]
          /\ now[c] = now[d]
          /\ answer[c] = answer[d] )
        => result[c] = result[d]

C14_Step ==
    \A c, d \in Calls :
        (c # d /\ CallState(c)' # CallState(c)) => CallState(d)' = CallState(d)

\* C14: concurrent calls are independent.  Each call issues at most one
\* request, exactly when it reaches line 126, and uses the answer to its
\* own request only; no step of one call changes anything another call
\* owns; and two calls with the same token, the same clock reading and the
\* same answer end with the same result, however their steps interleave.
C14_CallsIndependent ==
    /\ []C14_State
    /\ [][C14_Step]_vars

C14_Witness ==
    /\ pc["c1"] = "await" /\ result["c2"].kind = "claims"
    /\ token["c1"] = token["c2"]
    /\ net["c1"] = "pending" /\ net["c2"] = "settled"

(* ---- C15 ---- *)
\* C15: verifying the same valid token twice gives the same claims.  When
\* a call returned claims, another call with the same token, the same
\* clock reading and the same key set returns claims too, and any two
\* calls that return claims for one token return identical claims, the
\* token's payload.
C15_Idempotent ==
    \A c, d \in Calls :
        (Returned(c) /\ token[d] = token[c]) =>
            /\ Returned(d) => result[d].claims = result[c].claims
            /\ result[c].claims = token[c][2]
            /\ (pc[d] = "done" /\ now[d] = now[c] /\ answer[d] = answer[c])
                  => Returned(d)

C15_Witness ==
    /\ Returned("c1") /\ Returned("c2")
    /\ token["c1"] = token["c2"]
    /\ now["c1"] = now["c2"]

(* ---- handleGoogleLogin, lines 211-264 ---- *)

\* request bodies: text that is not JSON, the JSON null, an object without
\* a token (or with an empty one: both are falsy), an object with a token
Requests ==
    {[json |-> j, token |-> <<>>] : j \in {"invalid", "null", "object"}}
    \cup {[json |-> "object", token |-> t] :
            t \in SmallTokens
                  \cup {Signed(GoodHeader, PayloadDoc("null", {}, "-", "-", NoUser), "m1")}
                  \cup {Signed(GoodHeader,
                               PayloadDoc("object", {MaxExp}, CLIENT_ID,
                                          "https://accounts.google.com", u), "m1") :
                            u \in Users}}

LoginIds == {"r1"}

NoInfo == [id |-> "-", email |-> "-", name |-> "-", picture |-> "-",
           emailVerified |-> FALSE]

\* mutant: the whole payload is handed to the client
UserInfoWhole(p) == p

\* lines 238-244
UserInfo(p) ==
    [id |-> p.sub, email |-> p.email, name |-> p.name, picture |-> p.picture,
     emailVerified |-> p.email_verified]

\* lines 223-225: parseJSON returned null, or data.token is falsy
TokenMissing(b) == b.json # "object" \/ b.token = <<>>

Send(c, status, user, details) ==
    http' = [http EXCEPT ![c] =
                Append(@, [status |-> status, user |-> user, details |-> details])]

InitLogin ==
    /\ clock \in 1..MaxClock
    /\ body \in [LoginIds -> Requests]
    /\ http = [c \in LoginIds |-> <<>>]
    /\ token = [c \in LoginIds |-> <<>>]
    /\ pc = [c \in LoginIds |-> "recv"]
    /\ now = [c \in LoginIds |-> 0]
    /\ header = [c \in LoginIds |-> NoHeader]
    /\ payload = [c \in LoginIds |-> NoPayload]
    /\ signature = [c \in LoginIds |-> NoSig]
    /\ raw = [c \in LoginIds |-> <<>>]
    /\ net = [c \in LoginIds |-> "idle"]
    /\ keys = [c \in LoginIds |-> NoBody]
    /\ key = [c \in LoginIds |-> NoKey]
    /\ isValid = [c \in LoginIds |-> "unset"]
    /\ log = [c \in LoginIds |-> <<>>]
    /\ result = [c \in LoginIds |-> Pending]
    /\ answer = [c \in LoginIds |-> NoBody]
    /\ IdleCodec
    /\ IdleSockets

\* lines 220-234: the body has been received; answer 400 or call verifyJWT
ReceiveBody(c) ==
    /\ pc[c] = "recv"
    /\ IF TokenMissing(body[c])
       THEN /\ Send(c, 400, NoInfo, "Token is required")
            /\ pc' = [pc EXCEPT ![c] = "closed"]
            /\ UNCHANGED token
       ELSE /\ token' = [token EXCEPT ![c] = body[c].token]
            /\ pc' = [pc EXCEPT ![c] = "parse"]
            /\ UNCHANGED http
    /\ UNCHANGED <<clock, now, header, payload, signature, raw, net, keys, key,
                   isValid, log, result, answer, body, cin, cout, sock, room,
                   inbox, events>>

\* mutant: no catch around the await; a rejection leaves the request open
RespondNoCatch(c) ==
    /\ pc[c] = "done"
    /\ pc' = [pc EXCEPT ![c] = "closed"]
    /\ IF result[c].kind = "claims"
       THEN Send(c, 200, UserInfo(result[c].claims), "Login successful")
       ELSE UNCHANGED http
    /\ UNCHANGED <<clock, token, now, header, payload, signature, raw, net,
                   keys, key, isValid, log, result, answer, body, cin, cout,
                   sock, room, inbox, events>>

\* lines 234-262: verifyJWT settled; answer 200 with the user or 401
Respond(c) ==
    /\ pc[c] = "done"
    /\ pc' = [pc EXCEPT ![c] = "closed"]
    /\ IF result[c].kind = "claims"
       THEN Send(c, 200, UserInfo(result[c].claims), "Login successful")
       ELSE Send(c, 401, NoInfo, result[c].err)
    /\ UNCHANGED <<clock, token, now, header, payload, signature, raw, net,
                   keys, key, isValid, log, result, answer, body, cin, cout,
                   sock, room, inbox, events>>

NextLogin ==
    \/ \E c \in Calls : ReceiveBody(c)
    \/ \E c \in Calls : Parse(c)
    \/ \E c \in Calls : CheckExp(c)
    \/ \E c \in Calls : CheckAud(c)
    \/ \E c \in Calls : CheckIss(c)
    \/ \E c \in Calls : FetchStart(c)
    \/ \E c \in Calls : \E doc \in Bodies : FetchEnd(c, doc)
    \/ \E c \in Calls : FetchError(c)
    \/ \E c \in Calls : FindKey(c)
    \/ \E c \in Calls : VerifySig(c)
    \/ \E c \in Calls : Respond(c)
    \/ Tick

SpecLogin == InitLogin /\ [][NextLogin]_vars

(* ---- C16 ---- *)
ProfileFields == {"sub", "email", "name", "picture", "email_verified"}

C19_State(c) ==
    /\ Len(http[c]) <= 1
    /\ pc[c] = "closed" <=> Len(http[c]) = 1
    /\ \A i \in 1..Len(http[c]) :
        LET r == http[c][i] IN
        /\ r.status \in {200, 400, 401}
        /\ r.status = 400 <=> TokenMissing(body[c])
        /\ r.status = 400 =>
            /\ log[c] = <<>>
            /\ net[c] = "idle"
            /\ result[c] = Pending
            /\ r.user = NoInfo
        /\ r.status = 200 <=> Returned(c)
        /\ r.status = 200 =>
            /\ token[c] = body[c].token
            /\ isValid[c] = "true"
        /\ r.status = 401 <=> result[c].kind = "error"
        /\ r.status = 401 =>
            /\ r.user = NoInfo
            /\ r.details = result[c].err

\* a settled call is answered by the very next step of its request
C19_Step(c) ==
    (pc[c] = "done" /\ pc'[c] # "done") =>
        /\ pc'[c] = "closed"
        /\ Len(http'[c]) = 1

\* C19: a login request whose body was received gets exactly one response:
\* 400 without any call of verifyJWT (and no key-set request) when the body
\* is not JSON or carries no token, 200 with the user only when verifyJWT
\* returned claims for the request's token, 401 without user data for every
\* failure of verifyJWT, whatever its kind; no failure closes the request
\* unanswered.
C19_OneResponsePerRequest ==
    /\ [](\A c \in LoginIds : C19_State(c))
    /\ [][\A c \in LoginIds : C19_Step(c)]_vars

C19_Witness ==
    \E c \in Calls :
        /\ Len(http[c]) = 1
        /\ http[c][1].status = 401
        /\ http[c][1].details = "TypeError"

(* ---- base64UrlDecode, lines 51-60 ---- *)
MaxLen == 3     \* the strings decoded are at most this long

\* a few characters: four of the standard alphabet with their 6-bit values,
\* the two URL-safe ones, the padding character and one outside every
\* alphabet
Chars == {"A", "Q", "+", "/", "-", "_", "=", "!"}

Strings == UNION {[1..n -> Chars] : n \in 0..MaxLen}

InAlphabet(ch) == ch \in {"A", "Q", "+", "/"}

Sextet(ch) ==
    CASE ch = "A" -> 0
      [] ch = "Q" -> 16
      [] ch = "+" -> 62
      [] ch = "/" -> 63

\* line 53: str.replace(/-/g, "+").replace(/_/g, "/")
ToStandard(str) ==
    [i \in 1..Len(str) |->
        IF str[i] = "-" THEN "+" ELSE IF str[i] = "_" THEN "/" ELSE str[i]]

\* lines 55-57: while (base64.length % 4) base64 += "="
RECURSIVE Pad(_)
Pad(str) == IF Len(str) % 4 = 0 THEN str ELSE Pad(Append(str, "="))

\* Buffer.from(text, "base64") reads up to the first "=" and skips every
\* character that is not of the alphabet; it never throws
RECURSIVE Sextets(_)
Sextets(str) ==
    IF str = <<>> \/ Head(str) = "=" THEN <<>>
    ELSE IF InAlphabet(Head(str)) THEN <<Sextet(Head(str))>> \o Sextets(Tail(str))
    ELSE Sextets(Tail(str))

\* four sextets make three bytes; a rest of two makes one byte, a rest of
\* three makes two, a rest of one makes none
RECURSIVE Bytes(_)
Bytes(q) ==
    IF Len(q) < 2 THEN <<>>
    ELSE IF Len(q) = 2 THEN <<q[1] * 4 + q[2] \div 16>>
    ELSE IF Len(q) = 3
    THEN <<q[1] * 4 + q[2] \div 16, (q[2] % 16) * 16 + q[3] \div 4>>
    ELSE <<q[1] * 4 + q[2] \div 16, (q[2] % 16) * 16 + q[3] \div 4,
           (q[3] % 4) * 64 + q[4]>> \o Bytes(SubSeq(q, 5, Len(q)))

base64UrlDecode(str) == Bytes(Sextets(Pad(ToStandard(str))))

InitCodec ==
    /\ InitCalls({}, Tokens)
    /\ IdleLogin({})
    /\ IdleSockets
    /\ cin \in Strings
    /\ cout = [done |-> FALSE, failed |-> FALSE, bytes |-> <<>>]

\* one call of base64UrlDecode(cin): it always returns a Buffer
Decode ==
    /\ ~cout.done
    /\ cout' = [done |-> TRUE, failed |-> FALSE, bytes |-> base64UrlDecode(cin)]
    /\ UNCHANGED <<clock, token, pc, now, header, payload, signature, raw, net,
                   keys, key, isValid, log, result, answer, body, http, cin,
                   sock, room, inbox, events>>

NextCodec == Decode

SpecCodec == InitCodec /\ [][NextCodec]_vars

(* ---- C17 ---- *)
\* the inputs Codec.decode must refuse: a character outside the URL-safe and
\* standard alphabets, or a length that no padding completes
Undecodable(str) ==
    \/ \E i \in 1..Len(str) : str[i] \notin {"A", "Q", "+", "/", "-", "_", "="}
    \/ Len(str) % 4 = 1

\* C17: decoding an input with a character outside the alphabet, or whose
\* length padding cannot complete to a multiple of four, fails
\* (MalformedEncoding); such an input is never decoded to bytes.
C17_UndecodableRefused ==
    (cout.done /\ Undecodable(cin)) => cout.failed

(* ---- C18 ---- *)
\* C18: the expiration check of a payload with an exp rejects it exactly
\* when exp < now: exp = now passes, every earlier exp fails, 0 included.
C18_ExpiredIffBeforeNow ==
    \A c \in Calls :
        (Ran(c, "exp") /\ WellFormed(c)) =>
            \A e \in token[c][2].exp :
                Failed(c, "Token has expired") <=> e < now[c]

(* ---- the socket server, src/socket/server.js lines 22-50 ---- *)
MaxEvents == 2    \* "chiama" events handled in one run
MaxNum == 2       \* the numbers called are 1..MaxNum

Sockets == {"s1", "s2", "s3"}

InitSocket ==
    /\ InitCalls({}, Tokens)
    /\ IdleLogin({})
    /\ IdleCodec
    /\ sock = [s \in Sockets |-> "new"]
    /\ room = {}
    /\ inbox = [s \in Sockets |-> <<>>]
    /\ events = <<>>

\* mutant: io.emit, the event goes to every socket of the room
RecipientsAll(s) == room

\* line 43: socket.to("tabellone") is the room without the calling socket
Recipients(s) == room \ {s}

\* lines 22-26: a client connects and is put in the room
Connect(s) ==
    /\ sock[s] = "new"
    /\ sock' = [sock EXCEPT ![s] = "connected"]
    /\ room' = room \cup {s}
    /\ UNCHANGED <<inbox, events>>
    /\ UNCHANGED <<clock, token, pc, now, header, payload, signature, raw, net,
                   keys, key, isValid, log, result, answer, body, http, cin,
                   cout>>

\* lines 34-45: socket s sent "chiama" with number n
Chiama(s, n) ==
    /\ sock[s] = "connected"
    /\ Len(events) < MaxEvents
    /\ events' = Append(events,
            [from |-> s, n |-> n,
             conn |-> {t \in Sockets : sock[t] = "connected"}])
    /\ inbox' = [t \in Sockets |->
            IF t \in Recipients(s)
            THEN Append(inbox[t], [ev |-> Len(events) + 1, n |-> n])
            ELSE inbox[t]]
    /\ UNCHANGED <<sock, room>>
    /\ UNCHANGED <<clock, token, pc, now, header, payload, signature, raw, net,
                   keys, key, isValid, log, result, answer, body, http, cin,
                   cout>>

\* lines 47-49: the connection closed; the library takes the socket out of
\* its rooms
Disconnect(s) ==
    /\ sock[s] = "connected"
    /\ sock' = [sock EXCEPT ![s] = "disconnected"]
    /\ room' = room \ {s}
    /\ UNCHANGED <<inbox, events>>
    /\ UNCHANGED <<clock, token, pc, now, header, payload, signature, raw, net,
                   keys, key, isValid, log, result, answer, body, http, cin,
                   cout>>

NextSocket ==
    \/ \E s \in Sockets : Connect(s)
    \/ \E s \in Sockets : \E n \in 1..MaxNum : Chiama(s, n)
    \/ \E s \in Sockets : Disconnect(s)

SpecSocket == InitSocket /\ [][NextSocket]_vars

(* ---- C20 ---- *)
\* the events of inbox[t] that stem from the k-th "chiama"
Got(t, k) == {i \in 1..Len(inbox[t]) : inbox[t][i].ev = k}

\* C20: the room holds exactly the connected sockets, and the k-th "chiama"
\* with number n reached, once and with the same n, every socket that was
\* connected when it was handled except the caller, and no other socket.
C20_BroadcastToOthers ==
    /\ room = {s \in Sockets : sock[s] = "connected"}
    /\ \A k \in 1..Len(events) : \A t \in Sockets :
        /\ Cardinality(Got(t, k)) =
              IF t \in events[k].conn \ {events[k].from} THEN 1 ELSE 0
        /\ \A i \in Got(t, k) : inbox[t][i].n = events[k].n
    /\ \A t \in Sockets : \A i \in 1..Len(inbox[t]) :
          inbox[t][i].ev \in 1..Len(events)

C20_Witness ==
    \E k \in 1..Len(events) : \E t, d \in Sockets :
        /\ Got(t, k) # {}
        /\ sock[d] = "disconnected"
        /\ d \notin events[k].conn
        /\ Got(events[k].from, k) = {}
        /\ Cardinality(events[k].conn) = 2

====
